---- MODULE Spec2Model ----
(***************************************************************************)
(* A model of the tree store, its traversal iterators, the topology codec, *)
(* the move generators and the incremental likelihood update of trees_rs.  *)
(*                                                                         *)
(* Node ids, vector positions and child slots are 0-based as in the Rust   *)
(* code; a node array is a function over 0..(len-1) and a Vec<usize> is a   *)
(* TLA+ sequence read through At(v, i) == v[i + 1].                        *)
(***************************************************************************)
EXTENDS Integers, Sequences, FiniteSets, TLC

\* Largest encoding-vector length explored (a vector of length k gives k+1 leaves).
MaxK == 3

\* Largest PeturbVec.n explored.
MaxN == 2

\* Encoding-vector length of the trees the longer chains of swaps start from.
MaxSwapK == 4

\* Option<usize>::None
NONE == -1

\* Option<Vec<usize>>::None and Some(v)
NoVec == [some |-> FALSE, val |-> <<>>]

SomeVec(v) == [some |-> TRUE, val |-> v]

\* Vec indexing, 0-based.
At(v, i) == v[i + 1]

Min2(a, b) == IF a < b THEN a ELSE b

Max2(a, b) == IF a < b THEN b ELSE a

Ids(nodes) == DOMAIN nodes

(***************************************************************************)
(* Node                                                                    *)
(***************************************************************************)

\* Node::default(): no parent, no children, depth 0, index 0.
DefaultNode == [parent |-> NONE, lc |-> NONE, rc |-> NONE, depth |-> 0, index |-> 0]

\* Node::new(parent, children, index, depth, ..)
NewNode(parent, lc, rc, index, depth) ==
    [parent |-> parent, lc |-> lc, rc |-> rc, depth |-> depth, index |-> index]

\* node.tip: true iff the node has no children.
Tip(n) == n.lc = NONE /\ n.rc = NONE

\* Node::new_child is defined only when a slot is free.
CanNewChild(n) == n.lc = NONE \/ n.rc = NONE

\* Node::new_child(child): left slot if empty, else right slot.
new_child(n, child) ==
    IF n.lc = NONE THEN [n EXCEPT !.lc = child] ELSE [n EXCEPT !.rc = child]

\* Node::remove_child(child): empties the slot that holds child.
remove_child(n, child) ==
    IF n.lc = child THEN [n EXCEPT !.lc = NONE]
    ELSE IF n.rc = child THEN [n EXCEPT !.rc = NONE]
    ELSE n

(***************************************************************************)
(* Tree: construction and accessors                                        *)
(***************************************************************************)

\* Mutation of TreeNew: one node too many.
TreeNew_ExtraNode(k) == [i \in 0..(2 * k + 1) |-> DefaultNode]

\* Tree::new(tree_vec).nodes: 2k+1 default nodes.
TreeNew(k) == [i \in 0..(2 * k) |-> DefaultNode]

\* Tree::new(tree_vec).leaf_permutations: (0..=k)
LeafPermutations(k) == [i \in 1..(k + 1) |-> i - 1]

\* Tree::get_root: the first node of the array without a parent (its position), or NONE.
get_root(nodes) ==
    LET S == {i \in Ids(nodes) : nodes[i].parent = NONE}
    IN  IF S = {} THEN NONE ELSE CHOOSE i \in S : \A j \in S : i <= j

\* Tree::get_node
get_node(nodes, i) == IF i \in Ids(nodes) THEN i ELSE NONE

\* Tree::get_parent: position of the parent, or NONE.
get_parent(nodes, i) ==
    IF nodes[i].parent = NONE THEN NONE ELSE get_node(nodes, nodes[i].parent)

\* Tree::get_handedness: TRUE for Handedness::Left.
get_handedness(nodes, i) == nodes[get_parent(nodes, i)].lc = i

\* Mutation of most_left_child: takes one left link and stops.
most_left_child_OneLevel(nodes, i) ==
    IF nodes[i].lc = NONE THEN i ELSE nodes[i].lc

\* Tree::most_left_child: follow left links as far as they go.
RECURSIVE most_left_child(_, _)
most_left_child(nodes, i) ==
    IF nodes[i].lc = NONE THEN i ELSE most_left_child(nodes, nodes[i].lc)

\* Tree::swap_to_right_child: the right child of the parent of index.
swap_to_right_child(nodes, i) == get_node(nodes, nodes[get_parent(nodes, i)].rc)

\* Mutation of add: the parent is not told of its new child.
add_NoNewChild(nodes, index, parent) ==
    LET dpth == IF parent = NONE THEN 0 ELSE nodes[parent].depth + 1
    IN  [nodes EXCEPT ![index] = NewNode(parent, NONE, NONE, index, dpth)]

\* Tree::add(index, parent)
add(nodes, index, parent) ==
    LET withChild == IF parent = NONE THEN nodes
                     ELSE [nodes EXCEPT ![parent] = new_child(nodes[parent], index)]
        dpth      == IF parent = NONE THEN 0 ELSE withChild[parent].depth + 1
    IN  [withChild EXCEPT ![index] = NewNode(parent, NONE, NONE, index, dpth)]

\* How a call ended: the node array it left behind and the panic that ended it, if any.
Outcome(nodes, panic) == [nodes |-> nodes, panic |-> panic]

\* Mutation of add_call: a full parent takes the new child in its right slot.
add_call_Overwrite(nodes, index, parent) ==
    IF parent # NONE /\ get_node(nodes, parent) = NONE
    THEN Outcome(nodes, "unwrap on None")
    ELSE IF get_node(nodes, index) = NONE
    THEN Outcome(IF parent = NONE THEN nodes
                 ELSE [nodes EXCEPT ![parent] = new_child(nodes[parent], index)],
                 "index out of bounds")
    ELSE Outcome(add(nodes, index, parent), "none")

\* A call of Tree::add(index, parent) with its panics: mut_node(par).unwrap() on a
\* parent outside the array, new_child on a node with two children, and the
\* assignment to nodes[index] outside the array (after the parent took the child).
add_call(nodes, index, parent) ==
    IF parent # NONE /\ get_node(nodes, parent) = NONE
    THEN Outcome(nodes, "unwrap on None")
    ELSE IF parent # NONE /\ ~CanNewChild(nodes[parent])
    THEN Outcome(nodes, "new_child on a full node")
    ELSE IF get_node(nodes, index) = NONE
    THEN Outcome(IF parent = NONE THEN nodes
                 ELSE [nodes EXCEPT ![parent] = new_child(nodes[parent], index)],
                 "index out of bounds")
    ELSE Outcome(add(nodes, index, parent), "none")

\* Mutation of relocate: the root check comes after the old parent was written.
relocate_LateRootCheck(nodes, node_index, new_parent_index) ==
    IF get_node(nodes, node_index) = NONE
    THEN Outcome(nodes, "Node to move does not exist")
    ELSE IF get_node(nodes, new_parent_index) = NONE
    THEN Outcome(nodes, "New parent does not exist")
    ELSE IF get_parent(nodes, node_index) = NONE
    THEN Outcome([nodes EXCEPT ![node_index].parent = new_parent_index],
                 "Cannot move root node")
    ELSE Outcome(nodes, "none")

\* Mutation of relocate: the depths of the moved node's children are refreshed too.
relocate_RefreshChildren(nodes, node_index, new_parent_index) ==
    IF get_node(nodes, node_index) = NONE
    THEN Outcome(nodes, "Node to move does not exist")
    ELSE IF get_node(nodes, new_parent_index) = NONE
    THEN Outcome(nodes, "New parent does not exist")
    ELSE IF get_parent(nodes, node_index) = NONE
    THEN Outcome(nodes, "Cannot move root node")
    ELSE
      LET old      == get_parent(nodes, node_index)
          detached == [nodes EXCEPT ![old] = remove_child(nodes[old], node_index)]
          pointed  == [detached EXCEPT ![node_index].parent = new_parent_index]
          attached == [pointed EXCEPT ![new_parent_index] =
                                         new_child(pointed[new_parent_index], node_index)]
          above    == get_parent(attached, new_parent_index)
          d        == attached[above].depth + 1
      IN  IF ~CanNewChild(pointed[new_parent_index])
          THEN Outcome(pointed, "new_child on a full node")
          ELSE IF above = NONE
          THEN Outcome(attached, "unwrap on None")
          ELSE Outcome([i \in Ids(attached) |->
                          IF i = node_index THEN [attached[i] EXCEPT !.depth = d]
                          ELSE IF attached[i].parent = node_index
                               THEN [attached[i] EXCEPT !.depth = d + 1]
                               ELSE attached[i]],
                       "none")

\* Tree::relocate(node_index, new_parent_index), statement by statement. A panic
\* leaves the array as the statements before it wrote it.
relocate(nodes, node_index, new_parent_index) ==
    IF get_node(nodes, node_index) = NONE
    THEN Outcome(nodes, "Node to move does not exist")
    ELSE IF get_node(nodes, new_parent_index) = NONE
    THEN Outcome(nodes, "New parent does not exist")
    ELSE IF get_parent(nodes, node_index) = NONE
    THEN Outcome(nodes, "Cannot move root node")
    ELSE
      LET old      == get_parent(nodes, node_index)
          detached == [nodes EXCEPT ![old] = remove_child(nodes[old], node_index)]
          pointed  == [detached EXCEPT ![node_index].parent = new_parent_index]
          attached == [pointed EXCEPT ![new_parent_index] =
                                         new_child(pointed[new_parent_index], node_index)]
          above    == get_parent(attached, new_parent_index)
      IN  IF ~CanNewChild(pointed[new_parent_index])
          THEN Outcome(pointed, "new_child on a full node")
          ELSE IF above = NONE
          THEN Outcome(attached, "unwrap on None")
          ELSE Outcome([attached EXCEPT ![node_index].depth = attached[above].depth + 1],
                       "none")

(***************************************************************************)
(* Topology codec                                                          *)
(***************************************************************************)

\* The vectors decode accepts: v[i] in 0..2i at 0-based position i.
RECURSIVE LegalVecs(_)
LegalVecs(k) ==
    IF k = 0 THEN {<<>>}
    ELSE {Append(v, x) : v \in LegalVecs(k - 1), x \in 0..(2 * (k - 1))}

InsertAt(s, idx, e) == SubSeq(s, 1, idx) \o <<e>> \o SubSeq(s, idx + 1, Len(s))

\* Leaves that attach to a leaf branch (v[i] <= i), last leaf first.
RECURSIVE LeafPairs(_, _)
LeafPairs(v, i) ==
    IF i < 0 THEN <<>>
    ELSE (IF At(v, i) <= i THEN <<(<<At(v, i), i + 1>>)>> ELSE <<>>) \o LeafPairs(v, i - 1)

\* Mutation of InnerPairs: the new cherry is inserted one place too late.
RECURSIVE InnerPairs_LateInsert(_, _, _)
InnerPairs_LateInsert(v, j, pairs) ==
    IF j >= Len(v) THEN pairs
    ELSE IF At(v, j) > j
         THEN LET idx == Len(pairs) + At(v, j) - 2 * j
              IN  InnerPairs_LateInsert(v, j + 1,
                      InsertAt(pairs, Min2(idx + 1, Len(pairs)), <<pairs[idx][1], j + 1>>))
         ELSE InnerPairs_LateInsert(v, j + 1, pairs)

\* Leaves that attach to an internal branch (v[j] > j), first leaf first.
RECURSIVE InnerPairs(_, _, _)
InnerPairs(v, j, pairs) ==
    IF j >= Len(v) THEN pairs
    ELSE IF At(v, j) > j
         THEN LET idx == Len(pairs) + At(v, j) - 2 * j
              IN  InnerPairs(v, j + 1, InsertAt(pairs, idx, <<pairs[idx][1], j + 1>>))
         ELSE InnerPairs(v, j + 1, pairs)

\* The cherries of the tree in the order their parents are numbered.
GetPairs(v) == InnerPairs(v, 1, LeafPairs(v, Len(v) - 1))

\* rep[leaf] after the first p pairs were joined: the node that now stands for the leaf.
RECURSIVE Reps(_, _, _)
Reps(v, pairs, p) ==
    IF p = 0 THEN [l \in 0..Len(v) |-> l]
    ELSE LET r  == Reps(v, pairs, p - 1)
             pr == pairs[p]
         IN  [l \in 0..Len(v) |->
                IF r[l] = r[pr[1]] \/ r[l] = r[pr[2]] THEN Len(v) + p ELSE r[l]]

\* Adds the two children of pair p, p-1, .., 1 under their parents, root side first.
RECURSIVE AddPairs(_, _, _, _)
AddPairs(nodes, v, pairs, p) ==
    IF p = 0 THEN nodes
    ELSE LET r  == Reps(v, pairs, p - 1)
             pr == pairs[p]
             n1 == add(nodes, r[pr[1]], Len(v) + p)
             n2 == add(n1, r[pr[2]], Len(v) + p)
         IN  AddPairs(n2, v, pairs, p - 1)

\* phylo2vec(v) / Topology::from_vec(v): the node array of the decoded tree.
Decode(v) ==
    LET k == Len(v)
    IN  AddPairs(add(TreeNew(k), 2 * k, NONE), v, GetPairs(v), k)

\* The parent of every node, as the tests of phylo2vec read it.
ParentMap(ns) == [i \in Ids(ns) |-> ns[i].parent]

(***************************************************************************)
(* Tree shapes                                                             *)
(***************************************************************************)

\* The node array with the two child slots of every node of F exchanged.
Flip(ns, F) ==
    [i \in Ids(ns) |-> IF i \in F THEN [ns[i] EXCEPT !.lc = ns[i].rc, !.rc = ns[i].lc]
                       ELSE ns[i]]

\* The same tree with node i stored at position (last - i): the root comes first.
Reversed(ns) ==
    LET last == Cardinality(Ids(ns)) - 1
        r(x) == IF x = NONE THEN NONE ELSE last - x
    IN  [i \in Ids(ns) |->
           [parent |-> r(ns[last - i].parent), lc |-> r(ns[last - i].lc),
            rc |-> r(ns[last - i].rc), depth |-> ns[last - i].depth,
            index |-> r(ns[last - i].index)]]

Internal(ns) == {i \in Ids(ns) : ~Tip(ns[i])}

Tips(ns) == {i \in Ids(ns) : Tip(ns[i])}

Children(ns, i) == {ns[i].lc, ns[i].rc} \ {NONE}

\* The nodes of the subtree rooted at i, following child links.
RECURSIVE Subtree(_, _)
Subtree(ns, i) ==
    {i} \cup UNION {Subtree(ns, c) : c \in Children(ns, i)}

\* The chain i, parent(i), .. up to a parentless node, following parent links.
RECURSIVE Ancestry(_, _)
Ancestry(ns, i) ==
    IF ns[i].parent = NONE THEN <<i>> ELSE <<i>> \o Ancestry(ns, ns[i].parent)

Range(s) == {s[x] : x \in DOMAIN s}

NoDup(s) == \A x, y \in DOMAIN s : x # y => s[x] # s[y]

(***************************************************************************)
(* Traversal iterators: one step of next() as a function of the cursor     *)
(***************************************************************************)

\* Tree::iter(node)
RootIterNew(node) == [current_node |-> node, next_node |-> node, end_flag |-> FALSE]

\* Mutation of RootIterNext: the parentless arm forgets to set end_flag.
RootIterNext_NoEndFlag(ns, it) ==
    IF it.end_flag THEN [it |-> it, output |-> NONE]
    ELSE IF ns[it.current_node].parent = NONE
         THEN [it     |-> [it EXCEPT !.current_node = it.next_node],
               output |-> get_root(ns)]
         ELSE LET nx == get_node(ns, ns[it.current_node].parent)
              IN  [it     |-> [it EXCEPT !.next_node = nx, !.current_node = nx],
                   output |-> it.current_node]

\* RootIter::next
RootIterNext(ns, it) ==
    IF it.end_flag THEN [it |-> it, output |-> NONE]
    ELSE IF ns[it.current_node].parent = NONE
         THEN [it     |-> [it EXCEPT !.end_flag = TRUE, !.current_node = it.next_node],
               output |-> get_root(ns)]
         ELSE LET nx == get_node(ns, ns[it.current_node].parent)
              IN  [it     |-> [it EXCEPT !.next_node = nx, !.current_node = nx],
                   output |-> it.current_node]

\* Tree::preorder(node)
PreorderNew(node) == [current_node |-> node, next_node |-> node, return_nodes |-> <<>>]

\* Preorder::next hits its panic arm: a node with only a right child.
PreorderPanics(ns, it) ==
    /\ it.current_node # NONE
    /\ ns[it.current_node].lc = NONE
    /\ ns[it.current_node].rc # NONE

\* Mutation of PreorderNext: the two-children arm does not push the right child.
PreorderNext_NoPush(ns, it) ==
    IF it.current_node = NONE THEN [it |-> it, output |-> NONE]
    ELSE LET n  == ns[it.current_node]
             rn == it.return_nodes
             nx == IF n.lc # NONE THEN get_node(ns, n.lc)
                   ELSE IF rn = <<>> THEN NONE ELSE rn[Len(rn)]
             st == IF n.lc # NONE THEN rn
                   ELSE IF rn = <<>> THEN rn ELSE SubSeq(rn, 1, Len(rn) - 1)
         IN  [it     |-> [current_node |-> nx, next_node |-> nx, return_nodes |-> st],
              output |-> it.current_node]

\* Preorder::next
PreorderNext(ns, it) ==
    IF it.current_node = NONE THEN [it |-> it, output |-> NONE]
    ELSE LET n  == ns[it.current_node]
             rn == it.return_nodes
             nx == IF n.lc # NONE THEN get_node(ns, n.lc)
                   ELSE IF rn = <<>> THEN NONE ELSE rn[Len(rn)]
             st == IF n.lc # NONE /\ n.rc # NONE THEN Append(rn, get_node(ns, n.rc))
                   ELSE IF n.lc # NONE THEN rn
                   ELSE IF rn = <<>> THEN rn ELSE SubSeq(rn, 1, Len(rn) - 1)
         IN  [it     |-> [current_node |-> nx, next_node |-> nx, return_nodes |-> st],
              output |-> it.current_node]

\* Tree::postorder(node)
PostOrderNew(ns, node) ==
    [current_node |-> node, end_index |-> ns[node].index, start_flag |-> TRUE]

\* PostOrder::next
PostOrderNext(ns, it) ==
    IF it.start_flag
    THEN LET c == most_left_child(ns, it.current_node)
         IN  [it |-> [it EXCEPT !.current_node = c, !.start_flag = FALSE], output |-> c]
    ELSE IF ns[it.current_node].index = it.end_index
         THEN [it |-> it, output |-> NONE]
         ELSE LET ind == ns[it.current_node].index
                  c   == IF get_handedness(ns, ind)
                         THEN most_left_child(ns, swap_to_right_child(ns, ind))
                         ELSE get_parent(ns, ind)
              IN  [it |-> [it EXCEPT !.current_node = c], output |-> c]

\* The items a fresh postorder iterator yields before its first None.
RECURSIVE PostOrderRun(_, _)
PostOrderRun(ns, it) ==
    LET r == PostOrderNext(ns, it)
    IN  IF r.output = NONE THEN <<>> ELSE <<r.output>> \o PostOrderRun(ns, r.it)

\* Tree::postorder(node).collect()
postorder(ns, node) == PostOrderRun(ns, PostOrderNew(ns, node))

\* The items a rootward iterator yields before its first None.
RECURSIVE RootIterRun(_, _)
RootIterRun(ns, it) ==
    LET r == RootIterNext(ns, it)
    IN  IF r.output = NONE THEN <<>> ELSE <<r.output>> \o RootIterRun(ns, r.it)

\* Tree::iter(node).collect()
iter(ns, node) == RootIterRun(ns, RootIterNew(node))

\* .filter(|node| !node.tip)
FilterNoTips(ns, s) == SelectSeq(s, LAMBDA i : ~Tip(ns[i]))

\* Mutation of NoTipsNext: the first tip ends the iteration.
NoTipsNext_StopAtTip(ns, it) ==
    LET r == PostOrderNext(ns, it)
    IN  IF r.output = NONE \/ ~Tip(ns[r.output]) THEN r
        ELSE [it |-> r.it, output |-> NONE]

\* next() of postorder(node).filter(|node| !node.tip): the next item of the postorder
\* iterator that is not a tip, or None.
RECURSIVE NoTipsNext(_, _)
NoTipsNext(ns, it) ==
    LET r == PostOrderNext(ns, it)
    IN  IF r.output = NONE \/ ~Tip(ns[r.output]) THEN r
        ELSE NoTipsNext(ns, r.it)

\* Tree::postorder_notips(node).collect()
postorder_notips(ns, node) == FilterNoTips(ns, postorder(ns, node))

\* Tree::iter_notips(node).collect()
iter_notips(ns, node) == FilterNoTips(ns, iter(ns, node))

(***************************************************************************)
(* Codec: encode and find_changes                                          *)
(***************************************************************************)

\* The leaf sets below the internal nodes: the shape of the tree, whatever the
\* numbering of its internal nodes and the order of its children.
Clades(ns) == {Subtree(ns, i) \cap Tips(ns) : i \in Internal(ns)}

\* The shape every legal vector of every length in use decodes to.
ShapeOfVector ==
    [k \in 0..Max2(MaxK, MaxSwapK) |-> [v \in LegalVecs(k) |-> Clades(Decode(v))]]

\* newick_to_vector(get_newick(), count_leaves()): the vector of the tree's shape.
Encode(ns) ==
    LET k == (Cardinality(Ids(ns)) - 1) \div 2
    IN  CHOOSE v \in DOMAIN ShapeOfVector[k] : ShapeOfVector[k][v] = Clades(ns)

\* Topology::count_leaves
count_leaves(ns) == Cardinality(Tips(ns))

\* Mutation of find_changes: reports every position without comparing.
RECURSIVE find_changes_NoCompare(_, _, _)
find_changes_NoCompare(v, w, i) ==
    IF i >= Min2(Len(v), Len(w)) THEN <<>>
    ELSE <<i + Len(w) + 1>> \o find_changes_NoCompare(v, w, i + 1)

\* Topology::find_changes(other): one node id per position at which the two encoding
\* vectors differ, in increasing order; position i stands for internal node i + k + 1.
RECURSIVE find_changes(_, _, _)
find_changes(v, w, i) ==
    IF i >= Min2(Len(v), Len(w)) THEN <<>>
    ELSE (IF At(v, i) # At(w, i) THEN <<i + Len(w) + 1>> ELSE <<>>)
         \o find_changes(v, w, i + 1)

(***************************************************************************)
(* Tree states and move generators                                         *)
(***************************************************************************)

\* TreeState { top: Topology { nodes, tree_vec, likelihood }, ll, changed_nodes }
TreeState(ns, v, likelihood, ll, changes) ==
    [nodes |-> ns, tree_vec |-> v, likelihood |-> likelihood, ll |-> ll,
     changed_nodes |-> changes]

\* Topology::from_vec(v)
from_vec(v) == [nodes |-> Decode(v), tree_vec |-> v, likelihood |-> NONE]

\* ExactMove::generate
ExactMoveGenerate(ts, target_vector) ==
    LET new_topology == from_vec(target_vector)
        changes      == SomeVec(find_changes(ts.tree_vec, new_topology.tree_vec, 0))
    IN  TreeState(new_topology.nodes, new_topology.tree_vec, new_topology.likelihood,
                  ts.ll, changes)

\* PeturbVec::generate, samp_n
SampN(n, len) == IF n > len THEN len ELSE n

\* The sorted index samples PeturbVec::generate can draw: samp_n draws from 0..len-1,
\* repeats allowed.
SortedSamples(samp_n, len) ==
    {s \in [1..samp_n -> 0..(len - 1)] : \A x \in 1..(samp_n - 1) : s[x] <= s[x + 1]}

\* Mutation of PerturbLoop: the increment guard admits equality.
RECURSIVE PerturbLoop_OffByOne(_, _, _, _)
PerturbLoop_OffByOne(vout, inds, coins, x) ==
    IF x > Len(inds) THEN vout
    ELSE LET ind == inds[x]
             cur == At(vout, ind)
             nxt == IF ind = 0 THEN vout
                    ELSE IF coins[x]
                         THEN (IF cur <= 2 * (ind - 1)
                               THEN [vout EXCEPT ![ind + 1] = cur + 1] ELSE vout)
                         ELSE (IF cur > 0
                               THEN [vout EXCEPT ![ind + 1] = cur - 1] ELSE vout)
         IN  PerturbLoop_OffByOne(nxt, inds, coins, x + 1)

\* One pass of the loop body of PeturbVec::generate for the x-th sampled index on.
RECURSIVE PerturbLoop(_, _, _, _)
PerturbLoop(vout, inds, coins, x) ==
    IF x > Len(inds) THEN vout
    ELSE LET ind == inds[x]
             cur == At(vout, ind)
             nxt == IF ind = 0 THEN vout
                    ELSE IF coins[x]
                         THEN (IF cur < 2 * (ind - 1)
                               THEN [vout EXCEPT ![ind + 1] = cur + 1] ELSE vout)
                         ELSE (IF cur > 0
                               THEN [vout EXCEPT ![ind + 1] = cur - 1] ELSE vout)
         IN  PerturbLoop(nxt, inds, coins, x + 1)

\* PeturbVec::generate
PeturbVecGenerate(ts, inds, coins) ==
    LET vout         == PerturbLoop(ts.tree_vec, inds, coins, 1)
        new_topology == from_vec(vout)
        changes      == SomeVec(find_changes(ts.tree_vec, new_topology.tree_vec, 0))
    IN  TreeState(new_topology.nodes, new_topology.tree_vec, new_topology.likelihood,
                  ts.ll, changes)

\* Mutation of ChildSwapCandidates: nothing is popped.
ChildSwapCandidates_NoPop(ts) == postorder_notips(ts.nodes, get_root(ts.nodes))

\* int_nodes after int_nodes.pop(): the internal nodes in postorder without the last.
ChildSwapCandidates(ts) ==
    LET int_nodes == postorder_notips(ts.nodes, get_root(ts.nodes))
    IN  SubSeq(int_nodes, 1, Len(int_nodes) - 1)

\* v.sort(); v.reverse()
RECURSIVE SortDescending(_)
SortDescending(s) ==
    IF s = <<>> THEN <<>>
    ELSE LET m == CHOOSE x \in DOMAIN s : \A y \in DOMAIN s : s[y] <= s[x]
         IN  <<s[m]>> \o SortDescending(SubSeq(s, 1, m - 1) \o SubSeq(s, m + 1, Len(s)))

\* for n in all_subnodes { depth = parent.depth + 1 }, from the x-th element on.
RECURSIVE UpdateDepths(_, _, _)
UpdateDepths(ns, order, x) ==
    IF x > Len(order) THEN ns
    ELSE LET n == order[x]
             d == ns[get_parent(ns, n)].depth + 1
         IN  UpdateDepths([ns EXCEPT ![n].depth = d], order, x + 1)

\* Mutation of SwapLinks: the subtree taken from the parent keeps its old parent link.
SwapLinks_NoReparent(ns, ind) ==
    LET node    == ns[ind].index
        parent  == ns[get_parent(ns, node)].index
        par_lc  == ns[parent].lc
        par_rc  == ns[parent].rc
        node_lc == ns[node].lc
        node_rc == ns[node].rc
    IN  IF node = par_lc
        THEN [ns EXCEPT ![node].rc = par_rc,
                        ![parent].rc = node_rc, ![node_rc].parent = parent]
        ELSE [ns EXCEPT ![node].lc = par_lc,
                        ![parent].lc = node_lc, ![node_lc].parent = parent]

\* ChildSwap::generate: the links of new_topology after the exchange, for the chosen
\* candidate ind.
SwapLinks(ns, ind) ==
    LET node    == ns[ind].index
        parent  == ns[get_parent(ns, node)].index
        par_lc  == ns[parent].lc
        par_rc  == ns[parent].rc
        node_lc == ns[node].lc
        node_rc == ns[node].rc
    IN  IF node = par_lc
        THEN [ns EXCEPT ![node].rc = par_rc, ![par_rc].parent = node,
                        ![parent].rc = node_rc, ![node_rc].parent = parent]
        ELSE [ns EXCEPT ![node].lc = par_lc, ![par_lc].parent = node,
                        ![parent].lc = node_lc, ![node_lc].parent = parent]

\* ChildSwap::generate: all_subnodes before sorting.
MovedSubnodes(ns, new, ind) ==
    LET node   == ns[ind].index
        parent == ns[get_parent(ns, node)].index
    IN  IF node = ns[parent].lc
        THEN postorder(new, ns[parent].rc) \o postorder(new, ns[node].rc)
        ELSE postorder(new, ns[parent].lc) \o postorder(new, ns[node].lc)

\* Mutation of ChildSwapGenerate: the parent is left out of the changed nodes.
ChildSwapGenerate_NodeOnly(ts, ind) ==
    LET node    == ts.nodes[ind].index
        swapped == SwapLinks(ts.nodes, ind)
        order   == SortDescending(MovedSubnodes(ts.nodes, swapped, ind))
        new     == UpdateDepths(swapped, order, 1)
    IN  TreeState(new, Encode(new), NONE, ts.ll, SomeVec(<<node>>))

\* ChildSwap::generate, for the candidate ind the random draw picked.
ChildSwapGenerate(ts, ind) ==
    LET node    == ts.nodes[ind].index
        parent  == ts.nodes[get_parent(ts.nodes, node)].index
        swapped == SwapLinks(ts.nodes, ind)
        order   == SortDescending(MovedSubnodes(ts.nodes, swapped, ind))
        new     == UpdateDepths(swapped, order, 1)
    IN  TreeState(new, Encode(new), NONE, ts.ll, SomeVec(<<node, parent>>))

(***************************************************************************)
(* Likelihood engine                                                       *)
(***************************************************************************)

\* combine_lists(seq1, seq2, branchlengths, rate_matrix): a partial is kept as the term
\* that says what it was computed from, so two partials are equal exactly when they
\* were combined from the same partials in the same order. Every branch length is the
\* 1.0 Tree::add gives, and the rate matrix is fixed: neither tells two terms apart.
combine_lists(seq1, seq2) == <<seq1, seq2>>

\* genetic_data.likelihood_lists with the tips' data and nothing computed yet.
TipStore(ns) == [i \in Ids(ns) |-> IF Tip(ns[i]) THEN <<i>> ELSE <<>>]

\* The loop body shared by the two update functions, over elems from the x-th on.
RECURSIVE UpdateLoop(_, _, _, _)
UpdateLoop(ns, elems, store, x) ==
    IF x > Len(elems) THEN store
    ELSE LET elem == ns[elems[x]]
             new  == combine_lists(store[elem.lc], store[elem.rc])
         IN  UpdateLoop(ns, elems, [store EXCEPT ![elem.index] = new], x + 1)

\* One pass of the loop body for the node at position elem.
UpdateElem(ns, elem, store) ==
    [store EXCEPT ![ns[elem].index] = combine_lists(store[ns[elem].lc], store[ns[elem].rc])]

\* Tree::update_likelihood_postorder(node, genetic_data, rate_matrix)
update_likelihood_postorder(ns, node, store) ==
    UpdateLoop(ns, postorder_notips(ns, node), store, 1)

\* Tree::update_likelihood_rootward(node, genetic_data, rate_matrix)
update_likelihood_rootward(ns, node, store) ==
    UpdateLoop(ns, iter_notips(ns, node), store, 1)

\* update_likelihood_rootward from each changed node in turn, from the x-th on.
RECURSIVE RootwardFromEach(_, _, _, _)
RootwardFromEach(ns, changed, store, x) ==
    IF x > Len(changed) THEN store
    ELSE RootwardFromEach(ns, changed,
                          update_likelihood_rootward(ns, changed[x], store), x + 1)

(***************************************************************************)
(* State                                                                   *)
(***************************************************************************)

VARIABLES
    tree,      \* the node array of the Tree the iterators borrow and add/relocate write
    kind,      \* which iterator is live: "idle", "root", "pre", "post", "update"
    start,     \* the node the live iterator was constructed on
    cursor,    \* the fields of the live iterator
    yielded,   \* the Some(..) items next() has returned so far, in order
    nones,     \* how many times next() has returned None
    heap,      \* the tree states alive, by the place that owns their arrays
    cur,       \* the place of the state the chain holds (the ts passed to generate)
    ret,       \* the place of the state generate returned last, or NONE
    call,      \* the last call of generate: which move, with which draws
    accepted,  \* how many returned states the chain has taken over
    lik,       \* genetic_data.likelihood_lists: the partial of every node
    updated,   \* which update ran on lik since the last generate: "no", "rootward", "postorder"
    prior,     \* the contents of likelihood_lists when the running update was called
    op,        \* the last call of add or relocate: its arguments and how it ended
    before,    \* the node array as it was when that call was made
    added      \* the ids add has been called with

iterVars == <<tree, kind, start, cursor, yielded, nones>>

moveVars == <<heap, cur, ret, call, accepted>>

likVars == <<lik, updated, prior>>

mutVars == <<op, before, added>>

vars == <<iterVars, moveVars, likVars, mutVars>>

\* Calls of next() explored after the first None.
MaxNoneCalls == 2

\* Moves the chain accepts one after another.
MaxAccepted == 2

\* A place that holds no state.
Free == [nodes |-> <<>>]

Places == {0, 1}

NoCall == [move |-> "none"]

NoOp ==
    [fn |-> "none", index |-> NONE, parent |-> NONE, panic |-> "none", ordered |-> TRUE,
     followed |-> TRUE]

LikIdle ==
    /\ lik = <<>>
    /\ updated = "no"
    /\ prior = <<>>

MutIdle ==
    /\ op = NoOp
    /\ before = <<>>
    /\ added = {}

MoveIdle ==
    /\ heap = [a \in Places |-> Free]
    /\ cur = NONE
    /\ ret = NONE
    /\ call = NoCall
    /\ accepted = 0

IterIdle ==
    /\ tree = <<>>
    /\ kind = "idle"
    /\ start = NONE
    /\ cursor = <<>>
    /\ yielded = <<>>
    /\ nones = 0

\* The strictly-binary trees the iterators are run on: every decoded shape, with every
\* left/right arrangement of the children, numbered leaves-first and root-first.
IterTrees ==
    LET flipped == UNION {{Flip(Decode(v), F) : F \in SUBSET Internal(Decode(v))} :
                            v \in UNION {LegalVecs(k) : k \in 1..MaxK}}
    IN  flipped \cup {Reversed(t) : t \in flipped}

InitIter ==
    /\ tree \in IterTrees
    /\ kind = "idle"
    /\ start = NONE
    /\ cursor = <<>>
    /\ yielded = <<>>
    /\ nones = 0
    /\ MoveIdle
    /\ LikIdle
    /\ MutIdle

\* let it = tree.iter(tree.get_node(s))
StartRootIter(s) ==
    /\ kind = "idle"
    /\ kind' = "root"
    /\ start' = s
    /\ cursor' = RootIterNew(get_node(tree, s))
    /\ UNCHANGED <<tree, yielded, nones, moveVars, likVars, mutVars>>

\* let it = tree.preorder(tree.get_node(s))
StartPreorder(s) ==
    /\ kind = "idle"
    /\ kind' = "pre"
    /\ start' = s
    /\ cursor' = PreorderNew(get_node(tree, s))
    /\ UNCHANGED <<tree, yielded, nones, moveVars, likVars, mutVars>>

\* let it = tree.postorder(tree.get_node(s))
StartPostOrder(s) ==
    /\ kind = "idle"
    /\ kind' = "post"
    /\ start' = s
    /\ cursor' = PostOrderNew(tree, get_node(tree, s))
    /\ UNCHANGED <<tree, yielded, nones, moveVars, likVars, mutVars>>

\* The caller's record of one call of next().
Record(r) ==
    /\ cursor' = r.it
    /\ yielded' = IF r.output = NONE THEN yielded ELSE Append(yielded, r.output)
    /\ nones' = IF r.output = NONE THEN nones + 1 ELSE nones
    /\ UNCHANGED <<tree, kind, start, moveVars, likVars, mutVars>>

\* it.next() on a rootward iterator
CallRootIterNext ==
    /\ kind = "root"
    /\ nones <= MaxNoneCalls
    /\ Record(RootIterNext(tree, cursor))

\* it.next() on a preorder iterator
CallPreorderNext ==
    /\ kind = "pre"
    /\ nones <= MaxNoneCalls
    /\ ~PreorderPanics(tree, cursor)
    /\ Record(PreorderNext(tree, cursor))

\* it.next() on a postorder iterator
CallPostOrderNext ==
    /\ kind = "post"
    /\ nones <= MaxNoneCalls
    /\ Record(PostOrderNext(tree, cursor))

NextIter ==
    \/ \E s \in Ids(tree) : StartRootIter(s)
    \/ \E s \in Ids(tree) : StartPreorder(s)
    \/ \E s \in Ids(tree) : StartPostOrder(s)
    \/ CallRootIterNext
    \/ CallPreorderNext
    \/ CallPostOrderNext

SpecIter == InitIter /\ [][NextIter]_vars

(***************************************************************************)
(* The chain of proposals                                                  *)
(***************************************************************************)

\* Mutation of NewPlace: generate works on the arrays of its input.
NewPlace_Alias(h, input) == input

\* Where generate builds the state it returns: arrays of its own (nodes.clone(),
\* tree_vec.to_vec(), Topology::from_vec), never those of the input.
NewPlace(h, input) == CHOOSE a \in Places : a # input /\ h[a] = Free

\* The state the chain holds.
Ts == heap[cur]

\* generate returned st.
Return(st, c) ==
    LET a == NewPlace(heap, cur)
    IN  /\ heap' = [heap EXCEPT ![a] = st]
        /\ ret' = a
        /\ call' = c
        /\ UNCHANGED <<cur, accepted, iterVars, likVars, mutVars>>

\* A decoded state in place 0, nothing proposed yet.
InitState ==
    /\ IterIdle
    /\ MutIdle
    /\ \E k \in 1..MaxK : \E v \in LegalVecs(k) : \E ll \in 0..1 :
           heap = [a \in Places |->
                     IF a = 0 THEN TreeState(Decode(v), v, NONE, ll, NoVec) ELSE Free]
    /\ cur = 0
    /\ ret = NONE
    /\ call = NoCall
    /\ accepted = 0

InitMove == InitState /\ LikIdle

\* ExactMove{target_vector}.generate(&ts)
DoExactMove(target_vector) ==
    /\ ret = NONE
    /\ Return(ExactMoveGenerate(Ts, target_vector),
              [move |-> "exact", target |-> target_vector])

\* PeturbVec{n}.generate(&ts)
DoPeturbVec(n, inds, coins) ==
    /\ ret = NONE
    /\ Len(Ts.tree_vec) > 0
    /\ Return(PeturbVecGenerate(Ts, inds, coins),
              [move |-> "perturb", n |-> n, inds |-> inds, coins |-> coins])

\* ChildSwap{}.generate(&ts), the draw picking the c-th candidate
DoChildSwap(c) ==
    /\ ret = NONE
    /\ c \in DOMAIN ChildSwapCandidates(Ts)
    /\ Return(ChildSwapGenerate(Ts, ChildSwapCandidates(Ts)[c]),
              [move |-> "swap", ind |-> ChildSwapCandidates(Ts)[c]])

\* ChildSwap{}.generate(&ts) with no candidate: gen_range(0..0) panics, nothing returned
ChildSwapFails ==
    /\ ret = NONE
    /\ call.move # "swap_failed"
    /\ ChildSwapCandidates(Ts) = <<>>
    /\ call' = [move |-> "swap_failed"]
    /\ UNCHANGED <<heap, cur, ret, accepted, iterVars, likVars, mutVars>>

\* The caller keeps the returned state and drops the one it held.
Accept ==
    /\ ret # NONE
    /\ accepted < MaxAccepted
    /\ heap' = [heap EXCEPT ![cur] = Free]
    /\ cur' = ret
    /\ ret' = NONE
    /\ call' = NoCall
    /\ accepted' = accepted + 1
    /\ UNCHANGED <<iterVars, likVars, mutVars>>

\* The caller drops the returned state.
Reject ==
    /\ ret # NONE
    /\ heap' = [heap EXCEPT ![ret] = Free]
    /\ ret' = NONE
    /\ call' = NoCall
    /\ UNCHANGED <<cur, accepted, iterVars, likVars, mutVars>>

\* One proposal of any kind from a decoded state, then dropped.
NextGen ==
    \/ \E target \in LegalVecs(Len(Ts.tree_vec)) : DoExactMove(target)
    \/ \E n \in 0..MaxN :
         \E inds \in SortedSamples(SampN(n, Len(Ts.tree_vec)), Len(Ts.tree_vec)) :
           \E coins \in [1..Len(inds) -> BOOLEAN] : DoPeturbVec(n, inds, coins)
    \/ \E c \in 1..MaxK : DoChildSwap(c)
    \/ ChildSwapFails
    \/ Reject

SpecGen == InitMove /\ [][NextGen]_vars

\* A chain of ChildSwap proposals, each made from the state the last one returned.
NextChain ==
    \/ \E c \in 1..MaxK : DoChildSwap(c)
    \/ ChildSwapFails
    \/ Accept
    \/ Reject

SpecChain == InitMove /\ [][NextChain]_vars

\* A state decoded from a vector of the greatest length, nothing proposed yet.
InitSwaps ==
    /\ IterIdle
    /\ MutIdle
    /\ LikIdle
    /\ \E v \in LegalVecs(MaxSwapK) :
           heap = [a \in Places |->
                     IF a = 0 THEN TreeState(Decode(v), v, NONE, 0, NoVec) ELSE Free]
    /\ cur = 0
    /\ ret = NONE
    /\ call = NoCall
    /\ accepted = 0

\* Chains of ChildSwap proposals on the larger trees.
NextSwaps ==
    \/ \E c \in 1..MaxSwapK : DoChildSwap(c)
    \/ Accept
    \/ Reject

SpecSwaps == InitSwaps /\ [][NextSwaps]_vars

(***************************************************************************)
(* Likelihood after a local move                                           *)
(***************************************************************************)

\* Every internal partial of the held state is valid: a full postorder pass ran on it.
InitLik ==
    /\ InitState
    /\ lik = update_likelihood_postorder(Ts.nodes, get_root(Ts.nodes), TipStore(Ts.nodes))
    /\ updated = "no"
    /\ prior = <<>>

\* for c in changed_nodes { new.update_likelihood_rootward(c, genetic_data, ..) }
UpdateRootward ==
    /\ ret # NONE
    /\ updated = "no"
    /\ lik' = RootwardFromEach(heap[ret].nodes, heap[ret].changed_nodes.val, lik, 1)
    /\ updated' = "rootward"
    /\ UNCHANGED <<prior, iterVars, moveVars, mutVars>>

\* new.update_likelihood_postorder(new.get_root(), genetic_data, ..)
UpdatePostorder ==
    /\ ret # NONE
    /\ updated = "no"
    /\ lik' = update_likelihood_postorder(heap[ret].nodes, get_root(heap[ret].nodes), lik)
    /\ updated' = "postorder"
    /\ UNCHANGED <<prior, iterVars, moveVars, mutVars>>

NextLik ==
    \/ \E n \in 0..MaxN :
         \E inds \in SortedSamples(SampN(n, Len(Ts.tree_vec)), Len(Ts.tree_vec)) :
           \E coins \in [1..Len(inds) -> BOOLEAN] : DoPeturbVec(n, inds, coins)
    \/ \E c \in 1..MaxK : DoChildSwap(c)
    \/ UpdateRootward
    \/ UpdatePostorder

SpecLik == InitLik /\ [][NextLik]_vars

(***************************************************************************)
(* A postorder update, one pass of its loop at a time                      *)
(***************************************************************************)

\* A partial that no combination of the tips' data gives: what the store holds for an
\* internal node whose partial was computed on some other tree.
StalePartial == <<NONE>>

\* The store in which every internal partial is the one a full update gives.
ValidStore(ns) == update_likelihood_postorder(ns, get_root(ns), TipStore(ns))

\* The sets of internal nodes whose partials are stale when an update is called: none,
\* any one of them, or all of them.
StaleSets(ns) ==
    {{}, Internal(ns)} \cup {{i} : i \in Internal(ns)}

\* The stores an update can find: the tips' data, and for every internal node its
\* valid partial or a stale one.
PriorStores(ns) ==
    {[i \in Ids(ns) |-> IF i \in S THEN StalePartial ELSE ValidStore(ns)[i]] :
        S \in StaleSets(ns)}

InitUpdate ==
    /\ tree \in IterTrees
    /\ kind = "idle"
    /\ start = NONE
    /\ cursor = <<>>
    /\ yielded = <<>>
    /\ nones = 0
    /\ lik \in PriorStores(tree)
    /\ updated = "no"
    /\ prior = <<>>
    /\ MoveIdle
    /\ MutIdle

\* tree.update_likelihood_postorder(tree.get_node(s), ..) is called: the for loop
\* builds its iterator.
StartUpdate(s) ==
    /\ kind = "idle"
    /\ kind' = "update"
    /\ start' = s
    /\ cursor' = PostOrderNew(tree, get_node(tree, s))
    /\ prior' = lik
    /\ UNCHANGED <<tree, yielded, nones, lik, updated, moveVars, mutVars>>

\* One turn of the for loop: the filtered iterator gives the next internal node and the
\* body writes its partial, or it gives None and the function returns.
UpdateStep ==
    /\ kind = "update"
    /\ nones = 0
    /\ cursor' = NoTipsNext(tree, cursor).it
    /\ IF NoTipsNext(tree, cursor).output = NONE
       THEN /\ nones' = 1
            /\ updated' = "postorder"
            /\ UNCHANGED <<lik, yielded>>
       ELSE /\ lik' = UpdateElem(tree, NoTipsNext(tree, cursor).output, lik)
            /\ yielded' = Append(yielded, NoTipsNext(tree, cursor).output)
            /\ UNCHANGED <<nones, updated>>
    /\ UNCHANGED <<tree, kind, start, prior, moveVars, mutVars>>

NextUpdate ==
    \/ \E s \in Ids(tree) : StartUpdate(s)
    \/ UpdateStep

SpecUpdate == InitUpdate /\ [][NextUpdate]_vars

(***************************************************************************)
(* Building and editing a tree by hand                                     *)
(***************************************************************************)

\* Vector lengths of the trees built by hand.
MaxTreeK == 2

\* Tree::new(tree_vec): default nodes, nothing added yet.
InitTree ==
    /\ \E k \in 0..MaxTreeK : tree = TreeNew(k)
    /\ kind = "idle"
    /\ start = NONE
    /\ cursor = <<>>
    /\ yielded = <<>>
    /\ nones = 0
    /\ MoveIdle
    /\ LikIdle
    /\ MutIdle

\* The tree is one the model follows further: the program is alive and the last call
\* was one of those followed.
Building == op.panic = "none" /\ op.followed

\* The call adds an id for the first time, under a node added before it or under none.
InOrder(index, parent) == index \notin added /\ parent \in added \cup {NONE}

\* The highest id not added yet.
TopFree == Cardinality(Ids(tree)) - 1 - Cardinality(added)

\* tree.add(index, parent), called with every index and every parent. Neither add nor
\* relocate compares two indices, so of the trees that differ only in which ids were
\* handed out, one is followed further: the one whose adds came in order and took the
\* highest free id each time. No tree is followed past a panic or a relocate.
CallAdd(index, parent) ==
    /\ Building
    /\ tree' = add_call(tree, index, parent).nodes
    /\ op' = [fn |-> "add", index |-> index, parent |-> parent,
              panic |-> add_call(tree, index, parent).panic,
              ordered |-> InOrder(index, parent),
              followed |-> InOrder(index, parent) /\ index = TopFree]
    /\ before' = tree
    /\ added' = IF op'.panic = "none" THEN added \cup {index} ELSE added
    /\ UNCHANGED <<kind, start, cursor, yielded, nones, moveVars, likVars>>

\* tree.relocate(node_index, new_parent_index)
CallRelocate(node_index, new_parent_index) ==
    /\ Building
    /\ tree' = relocate(tree, node_index, new_parent_index).nodes
    /\ op' = [fn |-> "relocate", index |-> node_index, parent |-> new_parent_index,
              panic |-> relocate(tree, node_index, new_parent_index).panic,
              ordered |-> TRUE, followed |-> FALSE]
    /\ before' = tree
    /\ UNCHANGED <<added, kind, start, cursor, yielded, nones, moveVars, likVars>>

\* The indices a caller passes: those of the array, and one past its end for every
\* index outside it.
Indices == 0..Cardinality(Ids(tree))

NextTree ==
    \/ \E index \in Indices : \E parent \in {NONE} \cup Indices : CallAdd(index, parent)
    \/ \E node_index \in Indices : \E new_parent_index \in Indices :
          CallRelocate(node_index, new_parent_index)

SpecTree == InitTree /\ [][NextTree]_vars

(***************************************************************************)
(* Claims about the iterators                                              *)
(***************************************************************************)

Last(s) == s[Len(s)]

\* Every child of every yielded node was yielded at an earlier position.
ChildrenFirst(ns, s) ==
    \A x \in DOMAIN s : \A c \in Children(ns, s[x]) : \E y \in 1..(x - 1) : s[y] = c

\* C1: a postorder iterator started at any node s of a strictly-binary tree yields only
\* nodes of the subtree of s, none twice, every child before its parent and s last; once
\* s is yielded the next call returns None, and None is returned only after all n nodes
\* of the subtree have been yielded.
C1_PostOrderContract ==
    kind = "post" =>
        /\ NoDup(yielded)
        /\ Range(yielded) \subseteq Subtree(tree, start)
        /\ ChildrenFirst(tree, yielded)
        /\ start \in Range(yielded) => Last(yielded) = start
        /\ (yielded # <<>> /\ Last(yielded) = start) =>
               PostOrderNext(tree, cursor).output = NONE
        /\ nones > 0 =>
               /\ Range(yielded) = Subtree(tree, start)
               /\ Len(yielded) = Cardinality(Subtree(tree, start))
               /\ Last(yielded) = start

\* C1 witness: a finished postorder walk from an internal node that is not the root.
C1_Witness ==
    /\ kind = "post"
    /\ nones > 0
    /\ start # get_root(tree)
    /\ ~Tip(tree[start])
    /\ Len(yielded) >= 5

\* Nothing of the right subtree of any node is yielded before something of its left one.
LeftBeforeRight(ns, s) ==
    \A n \in Internal(ns) : \A x, y \in DOMAIN s :
        (s[x] \in Subtree(ns, ns[n].rc) /\ s[y] \in Subtree(ns, ns[n].lc)) => y < x

\* C2: a preorder iterator started at the root yields the root first, no node twice,
\* every node after its parent and every left subtree before the right subtree beside
\* it; it returns None only after all nodes, with no right-sibling left pending.
C2_PreorderContract ==
    (kind = "pre" /\ start = get_root(tree)) =>
        /\ NoDup(yielded)
        /\ yielded # <<>> => yielded[1] = start
        /\ \A x \in DOMAIN yielded :
               yielded[x] # start =>
                   \E y \in 1..(x - 1) : yielded[y] = tree[yielded[x]].parent
        /\ LeftBeforeRight(tree, yielded)
        /\ Range(yielded) = Ids(tree) => PreorderNext(tree, cursor).output = NONE
        /\ nones > 0 =>
               /\ Range(yielded) = Ids(tree)
               /\ cursor.return_nodes = <<>>

\* C2 witness: a finished preorder walk of a 7-node tree from its root.
C2_Witness ==
    /\ kind = "pre"
    /\ start = get_root(tree)
    /\ nones > 0
    /\ Len(yielded) >= 7

IsPrefix(s, t) == Len(s) <= Len(t) /\ \A x \in DOMAIN s : s[x] = t[x]

\* C3: on a tree with one parentless node a rootward iterator started at s yields s, then
\* the ancestors of s in parent order, the root once and last (also for s = root), that
\* is depth(s) + 1 items, and None on every call after that.
C3_RootIterContract ==
    kind = "root" =>
        /\ IsPrefix(yielded, Ancestry(tree, start))
        /\ yielded = Ancestry(tree, start) => RootIterNext(tree, cursor).output = NONE
        /\ nones > 0 =>
               /\ yielded = Ancestry(tree, start)
               /\ yielded[1] = start
               /\ Last(yielded) = get_root(tree)
               /\ Len(yielded) = tree[start].depth + 1
               /\ Cardinality({x \in DOMAIN yielded : yielded[x] = get_root(tree)}) = 1

\* C3 witness: a rootward walk from a node of depth >= 2 that has returned None twice.
C3_Witness ==
    /\ kind = "root"
    /\ nones >= 2
    /\ tree[start].depth >= 2
    /\ Len(yielded) >= 3

(***************************************************************************)
(* Claims about the move generators and the codec                          *)
(***************************************************************************)

\* generate has returned and the state it was given is still held.
Returned(move) == ret # NONE /\ call.move = move

VIn == heap[cur].tree_vec

VOut == heap[ret].tree_vec

\* C5 as stated: PeturbVec returns a vector of the same length with position 0 kept and
\* the value at every position i >= 1 within [0, 2*(i-1)].
C5_AsStated ==
    Returned("perturb") =>
        /\ Len(VOut) = Len(VIn)
        /\ At(VOut, 0) = At(VIn, 0)
        /\ \A i \in 1..(Len(VOut) - 1) : At(VOut, i) \in 0..(2 * (i - 1))

\* C5 amended: PeturbVec returns a vector of the same length with position 0 kept and
\* the value at every position i >= 1 within [0, max(2*(i-1), input value at i)], which
\* is inside [0, 2*i], the range decode accepts.
C5_PerturbRange ==
    Returned("perturb") =>
        /\ Len(VOut) = Len(VIn)
        /\ At(VOut, 0) = At(VIn, 0)
        /\ \A i \in 1..(Len(VOut) - 1) :
               /\ At(VOut, i) \in 0..Max2(2 * (i - 1), At(VIn, i))
               /\ At(VOut, i) \in 0..(2 * i)

\* C5 witness: a perturbation that raised one value and lowered another.
C5_Witness ==
    /\ Returned("perturb")
    /\ \E i, j \in 1..(Len(VOut) - 1) :
           At(VOut, i) > At(VIn, i) /\ At(VOut, j) < At(VIn, j)

\* C6: ChildSwap reports exactly two distinct ids [N, P]: N an internal node of the input
\* tree other than its root, P the parent of N in the input tree.
C6_ChildSwapReports ==
    Returned("swap") =>
        LET ch == heap[ret].changed_nodes.val
            ns == heap[cur].nodes
        IN  /\ Len(ch) = 2
            /\ ch[1] # ch[2]
            /\ ch[1] \in Internal(ns)
            /\ ch[1] # get_root(ns)
            /\ ch[2] = ns[ch[1]].parent

\* C6 witness: a swap proposed from a state that an earlier swap produced.
C6_Witness ==
    /\ Returned("swap")
    /\ accepted >= 1
    /\ heap[ret].changed_nodes.val[2] # get_root(heap[cur].nodes)

FixtureParents(a, b, c, d, e, f) ==
    [i \in 0..6 |-> IF i = 0 THEN a ELSE IF i = 1 THEN b ELSE IF i = 2 THEN c
                    ELSE IF i = 3 THEN d ELSE IF i = 4 THEN e ELSE IF i = 5 THEN f
                    ELSE NONE]

\* The parent maps asserted by the test treemake.
Fixture(v) ==
    IF v = <<0, 0, 0>> THEN FixtureParents(4, 6, 5, 4, 5, 6)
    ELSE IF v = <<0, 0, 1>> THEN FixtureParents(5, 4, 5, 4, 6, 6)
    ELSE IF v = <<0, 1, 0>> THEN FixtureParents(4, 5, 5, 4, 6, 6)
    ELSE IF v = <<0, 1, 1>> THEN FixtureParents(6, 4, 5, 4, 5, 6)
    ELSE IF v = <<0, 1, 2>> THEN FixtureParents(6, 5, 4, 4, 5, 6)
    ELSE IF v = <<0, 1, 3>> THEN FixtureParents(6, 4, 4, 5, 5, 6)
    ELSE IF v = <<0, 0, 3>> THEN FixtureParents(4, 6, 4, 5, 5, 6)
    ELSE <<>>

\* C7: the tree decoded from a fixture vector has the fixture's parent map (7 nodes,
\* node 6 the only parentless one); the trees decoded from two different vectors have
\* different parent maps; in a decoded tree every internal node's id exceeds its
\* children's ids.
C7_DecodeFixtures ==
    Returned("exact") =>
        LET ns == heap[ret].nodes
        IN  /\ Fixture(call.target) # <<>> => ParentMap(ns) = Fixture(call.target)
            /\ call.target # VIn => ParentMap(ns) # ParentMap(heap[cur].nodes)
            /\ \A i \in Internal(ns) : ns[i].lc < i /\ ns[i].rc < i

\* C7 witness: the fixture vector [0,1,3] decoded, from a state holding another fixture.
C7_Witness ==
    /\ Returned("exact")
    /\ call.target = <<0, 1, 3>>
    /\ VIn = <<0, 0, 3>>

\* C8: whatever the move, generate leaves the state it was given as it was (nodes,
\* vector, likelihood, changed nodes) and returns a state that owns its own arrays.
C8_InputUntouched ==
    [][(ret = NONE /\ ret' # NONE) =>
           /\ cur' = cur
           /\ heap'[cur] = heap[cur]
           /\ ret' # cur
           /\ heap'[ret'] # Free]_vars

\* C8 witness: a swap has returned a state whose nodes differ from the input's.
C8_Witness ==
    /\ Returned("swap")
    /\ heap[ret].nodes # heap[cur].nodes
    /\ heap[ret].tree_vec # heap[cur].tree_vec

\* C9: generate reports no changed node when the vector of the returned topology equals
\* the input's; so ExactMove with target_vector equal to the current vector does.
C9_NoChanges ==
    /\ (Returned("exact") \/ Returned("perturb")) =>
           (VOut = VIn => heap[ret].changed_nodes.val = <<>>)
    /\ (Returned("exact") /\ call.target = VIn) => heap[ret].changed_nodes.val = <<>>

\* C9 witness: ExactMove to the vector the state already has, on a 7-node tree.
C9_Witness ==
    /\ Returned("exact")
    /\ call.target = VIn
    /\ Len(VIn) = 3

Held == {a \in Places : heap[a] # Free}

\* C10 as stated: the vector of a tree built from a vector is 2 shorter than its number
\* of leaves.
C10_AsStated ==
    \A a \in Held : Len(heap[a].tree_vec) = count_leaves(heap[a].nodes) - 2

\* C10 amended: the vector of a tree built from a vector is 1 shorter than its number of
\* leaves (k entries, k+1 leaves, 2k+1 nodes).
C10_VectorLength ==
    \A a \in Held :
        LET k == Len(heap[a].tree_vec)
        IN  /\ k = count_leaves(heap[a].nodes) - 1
            /\ Cardinality(Ids(heap[a].nodes)) = 2 * k + 1
            /\ Cardinality(Ids(TreeNew(k))) = 2 * k + 1
            /\ Len(LeafPermutations(k)) = k + 1

\* C10 witness: a 4-leaf tree decoded from a vector of length 3.
C10_Witness ==
    /\ Returned("exact")
    /\ Len(VOut) = 3
    /\ count_leaves(heap[ret].nodes) = 4

(***************************************************************************)
(* Claims about the likelihood engine                                      *)
(***************************************************************************)

\* What a full update_likelihood_postorder from the root leaves in the store.
FullStore(ns) == update_likelihood_postorder(ns, get_root(ns), lik)

\* The partials of the changed nodes' internal ancestors agree with a full recomputation.
AncestorsAgree ==
    LET ns == heap[ret].nodes
    IN  \A c \in Range(heap[ret].changed_nodes.val) :
            \A a \in Range(iter_notips(ns, c)) : lik[a] = FullStore(ns)[a]

C4_ChildSwapOnly ==
    (Returned("swap") /\ updated = "rootward") =>
        /\ AncestorsAgree
        /\ lik = FullStore(heap[ret].nodes)

\* A rootward update has run after a ChildSwap on a 7-node tree.
C4_ChildSwapReached ==
    /\ Returned("swap")
    /\ updated = "rootward"
    /\ Len(VIn) = 3

\* Whatever single node find_changes were to report after a PeturbVec that changed the
\* vector, a rootward update from it would have to give the root its full-recomputation
\* partial for C4 to hold.
C4_SomeStartNodeSuffices ==
    (Returned("perturb") /\ updated = "no" /\ VOut # VIn) =>
        LET ns == heap[ret].nodes
        IN  \E c \in Ids(ns) :
                update_likelihood_rootward(ns, c, lik)[get_root(ns)]
                    = FullStore(ns)[get_root(ns)]

(***************************************************************************)
(* Claims about add and relocate                                           *)
(***************************************************************************)

\* The last call was relocate(op.index, op.parent) on the array before.
Relocated == op.fn = "relocate"

\* The last call was add(op.index, op.parent) on the array before.
Added == op.fn = "add"

\* The three cases in which relocate is said to fail.
NodeAbsent == op.index \notin Ids(before)

ParentAbsent == op.parent \notin Ids(before)

NodeIsRoot == ~NodeAbsent /\ before[op.index].parent = NONE

\* C11: relocate(node, new_parent) panics whenever node has no parent, or node is
\* outside the node array, or new_parent is outside the node array, and in each of
\* these cases the array is, at the panic, exactly as it was at the call: no link and
\* no depth of any node was written.
C11_RelocateRefuses ==
    (Relocated /\ (NodeAbsent \/ ParentAbsent \/ NodeIsRoot)) =>
        (op.panic # "none" /\ tree = before)

\* relocate was called on the root of a tree with a child under the root, with a new
\* parent that exists; it panicked.
C11_Witness ==
    /\ Relocated
    /\ NodeIsRoot
    /\ ~ParentAbsent
    /\ op.index \in added
    /\ ~Tip(before[op.index])
    /\ op.panic = "Cannot move root node"

(***************************************************************************)
(* Claims about the trees ChildSwap returns                                *)
(***************************************************************************)

\* Every depth is the distance from the root: 0 at a parentless node, one more than the
\* parent's everywhere else.
DepthsConsistent(ns) ==
    \A i \in Ids(ns) :
        IF ns[i].parent = NONE THEN ns[i].depth = 0
        ELSE ns[i].depth = ns[ns[i].parent].depth + 1

\* C12: in every state reached from a decoded topology by a sequence of ChildSwap
\* moves, each applied to the state the one before returned, the root has depth 0
\* and every other node's depth is its parent's depth plus 1.
C12_DepthsAfterSwaps ==
    \A a \in Held : DepthsConsistent(heap[a].nodes)

\* The node reached from i by following parent links n times, or NONE past the top.
RECURSIVE Climb(_, _, _)
Climb(ns, i, n) ==
    IF n = 0 \/ i = NONE THEN i ELSE Climb(ns, ns[i].parent, n - 1)

\* The node array is a strictly-binary tree of k+1 tips rooted at node 2k.
WellFormed(ns) ==
    LET size == Cardinality(Ids(ns))
        root == size - 1
    IN  /\ {i \in Ids(ns) : ns[i].parent = NONE} = {root}
        /\ \A i \in Ids(ns) : \E n \in 0..(size - 1) :
               Climb(ns, i, n) = root /\ \A m \in 0..(n - 1) : Climb(ns, i, m) # root
        /\ \A i \in Ids(ns) :
               \/ ns[i].lc = NONE /\ ns[i].rc = NONE
               \/ ns[i].lc # NONE /\ ns[i].rc # NONE /\ ns[i].lc # ns[i].rc
        /\ \A n, q \in Ids(ns) : (ns[n].parent = q) <=> (n \in Children(ns, q))
        /\ Tips(ns) = 0..((size - 1) \div 2)

\* C13: in every state reached from a decoded topology by a sequence of ChildSwap
\* moves the node array is a well-formed strictly-binary tree: the one parentless node
\* is the root the decoded tree had (node 2k), every node reaches it by parent links
\* without a cycle, every internal node has two children, n.parent = p exactly when n
\* is in a child slot of p, and the tips are the ids 0..k as in the decoded tree.
C13_WellFormedAfterSwaps ==
    \A a \in Held : WellFormed(heap[a].nodes)

\* A second swap in a row has returned a state.
C13_Witness ==
    /\ Returned("swap")
    /\ accepted >= 1
    /\ ParentMap(heap[ret].nodes) # ParentMap(heap[cur].nodes)

(***************************************************************************)
(* Claims about what relocate and add write                                *)
(***************************************************************************)

\* The last call was a relocate that returned.
RelocateReturned == Relocated /\ op.panic = "none"

\* C14: after a relocate(node, new_parent) that returned, made on a tree whose depths
\* were consistent, node's parent is new_parent and node's depth is new_parent's depth
\* plus 1.
C14_RelocateDepth ==
    (RelocateReturned /\ DepthsConsistent(before)) =>
        /\ tree[op.index].parent = op.parent
        /\ tree[op.index].depth = tree[op.parent].depth + 1

\* The parent node had when relocate was called.
OldParent == before[op.index].parent

\* C15: a relocate(node, new_parent) that returned has changed only the child slots of
\* node's old parent, node's own parent and depth, and the child slots of new_parent.
\* Every other node's parent, children and depth are as before, and every proper
\* descendant of node has the depth it had.
C15_RelocateFrame ==
    RelocateReturned =>
        /\ Ids(tree) = Ids(before)
        /\ \A i \in Ids(tree) :
               /\ tree[i].index = before[i].index
               /\ i \notin {OldParent, op.parent} =>
                      tree[i].lc = before[i].lc /\ tree[i].rc = before[i].rc
               /\ i # op.index =>
                      tree[i].parent = before[i].parent /\ tree[i].depth = before[i].depth
        /\ \A d \in Subtree(before, op.index) \ {op.index} :
               tree[d].depth = before[d].depth

\* relocate moved a node that has a child from one parent to another, neither of them
\* in the moved subtree, and returned; the child's depth is now stale.
C15_Witness ==
    /\ RelocateReturned
    /\ op.parent # OldParent
    /\ op.parent \notin Subtree(before, op.index)
    /\ tree[op.index].parent = op.parent
    /\ op.index \in Children(tree, op.parent)
    /\ op.index \notin Children(tree, OldParent)
    /\ \E d \in Children(before, op.index) :
           tree[d].depth = before[d].depth /\ tree[d].depth # tree[op.index].depth + 1

\* What add(id, parent) is said to do, for the call op made on the array before: with
\* parent = Some(p), a panic if p has two children, else id in p's left slot if that
\* was empty and in its right slot if not, id's parent p and id's depth p's plus 1;
\* with parent = None, no parent and depth 0; either way a childless node of index id.
AddContract ==
    LET id == op.index
        p  == op.parent
    IN  IF p # NONE /\ ~CanNewChild(before[p])
        THEN op.panic # "none"
        ELSE /\ op.panic = "none"
             /\ tree[id].lc = NONE /\ tree[id].rc = NONE
             /\ tree[id].index = id
             /\ tree[id].parent = p
             /\ IF p = NONE THEN tree[id].depth = 0
                ELSE /\ tree[id].depth = before[p].depth + 1
                     /\ IF before[p].lc = NONE THEN tree[p].lc = id
                        ELSE tree[p].lc = before[p].lc /\ tree[p].rc = id

\* add was called with an id of the array and with no parent or a parent of the array.
AddInRange ==
    Added /\ op.index \in Ids(before) /\ op.parent \in Ids(before) \cup {NONE}

\* C16 as stated: every call add(id, parent) does what AddContract says.
C16_AsStated == AddInRange => AddContract

\* C16: every call add(id, parent) with id other than the parent it names places id in
\* p's left child slot if that slot is empty and otherwise in p's right slot, panics if
\* p already has two children, and sets id's parent to p and id's depth to p.depth + 1;
\* add(id, none) creates a parentless node of depth 0; in both cases the new node is a
\* childless node with index id.
C16_AddContract == (AddInRange /\ op.index # op.parent) => AddContract

\* add put a node in the right slot of a parent whose left slot was taken.
C16_Witness ==
    /\ AddInRange
    /\ op.parent # NONE
    /\ op.index # op.parent
    /\ before[op.parent].lc # NONE
    /\ before[op.parent].rc = NONE
    /\ op.panic = "none"
    /\ tree[op.parent].rc = op.index

(***************************************************************************)
(* Claims about the positions PeturbVec changes                            *)
(***************************************************************************)

\* The 0-based positions at which the returned vector differs from the input vector.
Differing == {i \in 0..(Len(VIn) - 1) : At(VOut, i) # At(VIn, i)}

\* C17: PeturbVec{n}.generate draws min(n, vector length) pairwise distinct positions,
\* so every position of the returned vector differs from the input's by at most 1 and
\* at most min(n, vector length) positions differ.
C17_DistinctPositions ==
    Returned("perturb") =>
        /\ Len(call.inds) = Min2(call.n, Len(VIn))
        /\ NoDup(call.inds)
        /\ \A i \in 0..(Len(VIn) - 1) :
               At(VOut, i) - At(VIn, i) \in {-1, 0, 1}
        /\ Cardinality(Differing) <= Min2(call.n, Len(VIn))

(***************************************************************************)
(* Claims about the postorder update                                       *)
(***************************************************************************)

\* The internal nodes of the subtree the update was started on.
InScope == Subtree(tree, start) \cap Internal(tree)

\* update_likelihood_postorder has returned.
UpdateReturned == kind = "update" /\ nones > 0

\* C18: for every well-formed tree, every start node and every prior contents of the
\* store, update_likelihood_postorder(node) writes the partial of an internal node of
\* node's subtree at every turn, no node twice and none before the internal nodes
\* below it, and never a tip's partial or one outside the subtree; when it returns it
\* has written every internal node of the subtree, each holds the combination of its
\* two children's partials as they now are, and the store is the one the whole update
\* gives.
C18_PostorderUpdate ==
    kind = "update" =>
        /\ NoDup(yielded)
        /\ Range(yielded) \subseteq InScope
        /\ \A x, y \in DOMAIN yielded :
               yielded[y] \in Subtree(tree, yielded[x]) \ {yielded[x]} => y < x
        /\ \A i \in Ids(tree) \ Range(yielded) : lik[i] = prior[i]
        /\ UpdateReturned =>
               /\ Range(yielded) = InScope
               /\ \A i \in InScope :
                      lik[i] = combine_lists(lik[tree[i].lc], lik[tree[i].rc])
               /\ lik = update_likelihood_postorder(tree, start, prior)

\* An update from an internal node other than the root has returned; the store held
\* stale partials inside and outside the subtree, and the subtree has internal nodes
\* below its top.
C18_Witness ==
    /\ UpdateReturned
    /\ tree[start].parent # NONE
    /\ Len(yielded) >= 2
    /\ prior[start] = StalePartial
    /\ prior[tree[start].parent] = StalePartial
    /\ lik[tree[start].parent] = StalePartial
    /\ lik[start] # StalePartial

(***************************************************************************)
(* Claims about sequences of add                                           *)
(***************************************************************************)

\* Every call so far was an add that returned, each with an id not added before and
\* under a parent added before it (or under none).
AddedInOrder == op.fn = "add" /\ op.ordered /\ op.panic = "none"

\* n.parent = p exactly when n is in a child slot of p.
LinksMutual(ns) ==
    \A n, q \in Ids(ns) : (ns[n].parent = q) <=> (n \in Children(ns, q))

\* C19: after any sequence of add calls in which each id is added once and every node
\* after its parent, n.parent = p holds exactly when n occupies a child slot of p, and
\* every depth of a node with a parent is its parent's depth plus 1.
C19_AddInOrder ==
    AddedInOrder => (LinksMutual(tree) /\ DepthsConsistent(tree))

\* Adds in order have built a tree with a node of two children and a node two levels
\* below the root.
C19_Witness ==
    /\ AddedInOrder
    /\ Cardinality(added) >= 4
    /\ \E q \in added : tree[q].lc # NONE /\ tree[q].rc # NONE
    /\ \E n \in added : tree[n].depth = 2

(***************************************************************************)
(* Claims about when relocate returns                                      *)
(***************************************************************************)

\* C20: every call relocate(node, new_parent) in which node is in the array and has a
\* parent, and new_parent is in the array and has a free child slot, returns without a
\* panic, also when new_parent is the root of the tree.
C20_RelocateCompletes ==
    (/\ Relocated
     /\ ~NodeAbsent
     /\ ~ParentAbsent
     /\ ~NodeIsRoot
     /\ CanNewChild(before[op.parent])) => op.panic = "none"

\* The calls of C20 whose new parent has a parent of its own.
C20_UnderNonRoot ==
    (/\ Relocated
     /\ ~NodeAbsent
     /\ ~ParentAbsent
     /\ ~NodeIsRoot
     /\ CanNewChild(before[op.parent])
     /\ before[op.parent].parent # NONE) => op.panic = "none"

(***************************************************************************)
(* Claims about the candidates of ChildSwap                                *)
(***************************************************************************)

\* The internal nodes of ns other than its root.
InnerNonRoot(ns) == Internal(ns) \ {get_root(ns)}

\* C21: on every tree ChildSwap.generate is called on, the element popped from the
\* internal nodes in postorder is the root, so the candidates are exactly the internal
\* nodes other than the root and there is one exactly when the tree has at least 3
\* leaves; generate returns a state only when it had a candidate and picked one of
\* them, and on a tree whose only internal node is the root it fails and returns
\* nothing.
C21_SwapCandidates ==
    /\ \A a \in Held :
          LET ns        == heap[a].nodes
              int_nodes == postorder_notips(ns, get_root(ns))
          IN  /\ Last(int_nodes) = get_root(ns)
              /\ NoDup(ChildSwapCandidates(heap[a]))
              /\ Range(ChildSwapCandidates(heap[a])) = InnerNonRoot(ns)
              /\ (ChildSwapCandidates(heap[a]) # <<>>) <=> (count_leaves(ns) >= 3)
    /\ Returned("swap") => call.ind \in InnerNonRoot(heap[cur].nodes)
    /\ call.move = "swap_failed" =>
          /\ ret = NONE
          /\ Internal(Ts.nodes) = {get_root(Ts.nodes)}
          /\ count_leaves(Ts.nodes) = 2

\* generate was called on the tree of two leaves and failed.
C21_Witness ==
    /\ call.move = "swap_failed"
    /\ ret = NONE
    /\ ChildSwapCandidates(Ts) = <<>>
    /\ postorder_notips(Ts.nodes, get_root(Ts.nodes)) = <<get_root(Ts.nodes)>>


====
